---------------------------- MODULE Spec2Model ----------------------------
(***************************************************************************)
(* mongobak: connect / list / backup command handlers of src/main.go.      *)
(*                                                                         *)
(* Strings (URIs, database names, paths, flag values, file contents) are   *)
(* sequences of tokens; a token is one character or one run of letters.    *)
(* The file system, the MongoDB server and the standard output are the     *)
(* environment of the process; library calls that can fail do so           *)
(* nondeterministically.                                                   *)
(***************************************************************************)
EXTENDS Integers, Sequences, FiniteSets, TLC

VARIABLES
    pc,          \* position of the process in the running command
    args,        \* the parsed flags of the running command
    exitStatus,  \* NoExit while running, else the exit status
    stdout,      \* the lines printed by the running command
    calls,       \* driver operations issued by the running command
    cfg,         \* the Config returned by loadConfig
    dbName,      \* database name used by list / backup
    exSet,       \* backup: the set of excluded names
    isDir,       \* backup: the output mode
    colls,       \* backup: the names returned by ListCollectionNames
    ci,          \* backup: index of the collection being processed
    cur,         \* backup: the cursor of the current collection
    count,       \* backup: documents written for the current collection
    doc,         \* backup: the decoded document
    w,           \* backup: the bufio.Writer in use
    openFile,    \* backup: path of the output file held open, or NoPath
    cfgFile,     \* content of config.json, or Absent
    tmpFile,     \* content of config.json.tmp, or Absent
    prevCfgFile, \* content of config.json when the running command started
    dirs,        \* the directories of the output file system
    files,       \* the regular files of the output file system
    diskFull,    \* whether writes to output files fail
    runs,        \* commands started so far
    errs,        \* history: library operations that returned an error
    accepted,    \* history: [file, tok] of every Write that returned nil
    created,     \* history: output files created by the running command
    savedCfg     \* history: the Config of the last saveConfig that returned nil

vars == <<pc, args, exitStatus, stdout, calls, cfg, dbName, exSet, isDir, colls,
          ci, cur, count, doc, w, openFile, cfgFile, tmpFile, prevCfgFile,
          dirs, files, diskFull, runs, errs, accepted, created,
          savedCfg>>

-----------------------------------------------------------------------------
(* Bounds of the model *)

\* Commands run in sequence in one session of SpecConfig.
MaxRuns == 2

\* Capacity of a bufio.Writer in tokens (1<<20 bytes in the program).
BufSize == 2

-----------------------------------------------------------------------------
(* Strings *)

Absent == <<"<absent>">>
NoPath == <<"<nopath>">>
NoExit == -1

\* strings.TrimSpace: leading and trailing white space removed
RECURSIVE TrimLeft(_)
TrimLeft(s) ==
    IF s # <<>> /\ Head(s) = " " THEN TrimLeft(Tail(s)) ELSE s

RECURSIVE TrimRight(_)
TrimRight(s) ==
    IF s # <<>> /\ s[Len(s)] = " " THEN TrimRight(SubSeq(s, 1, Len(s) - 1)) ELSE s

TrimSpace(s) == TrimRight(TrimLeft(s))

\* strings.Split(s, sep) for a one-token separator
RECURSIVE Split(_, _)
Split(s, sep) ==
    LET at == {i \in 1..Len(s) : s[i] = sep}
    IN  IF at = {} THEN <<s>>
        ELSE LET i == CHOOSE j \in at : \A k \in at : j <= k
             IN  <<SubSeq(s, 1, i - 1)>> \o Split(SubSeq(s, i + 1, Len(s)), sep)

RECURSIVE DropEmptyTrimmed(_)
DropEmptyTrimmed(parts) ==
    IF parts = <<>> THEN <<>>
    ELSE LET p == TrimSpace(Head(parts))
         IN  (IF p # <<>> THEN <<p>> ELSE <<>>) \o DropEmptyTrimmed(Tail(parts))

splitCSV(s) ==
    IF TrimSpace(s) = <<>> THEN <<>>
    ELSE DropEmptyTrimmed(Split(s, ","))

Range(s) == {s[i] : i \in 1..Len(s)}

HasSuffix(s, t) == Len(s) >= Len(t) /\ SubSeq(s, Len(s) - Len(t) + 1, Len(s)) = t

\* strings.ToLower on the letter runs the model uses
LowerToken(t) ==
    CASE t = "JSON" -> "json"
      [] t = "JSONL" -> "jsonl"
      [] OTHER -> t

ToLower(s) == [i \in 1..Len(s) |-> LowerToken(s[i])]

-----------------------------------------------------------------------------
(* encoding/json on Config *)

ZeroConfig == [URI |-> <<>>, DB |-> <<>>]

\* Bytes that are not valid UTF-8 are coerced to U+FFFD; <, > and & are
\* written as \u escapes (Encoder default).
EscapeToken(c) ==
    CASE c = "<" -> "\\u003c"
      [] c = "xFF" -> "\\ufffd"
      [] c = "\"" -> "\\\""
      [] OTHER -> c

UnescapeToken(t) ==
    CASE t = "\\u003c" -> "<"
      [] t = "\\ufffd" -> "uFFFD"
      [] t = "\\\"" -> "\""
      [] OTHER -> t

QuoteJSON(s) == <<"\"">> \o [i \in 1..Len(s) |-> EscapeToken(s[i])] \o <<"\"">>

\* json.NewEncoder(f).Encode(cfg): the object and a trailing newline
JsonEncode(c) ==
    <<"{", "\"uri\":">> \o QuoteJSON(c.URI) \o <<",", "\"db\":">>
        \o QuoteJSON(c.DB) \o <<"}", "\n">>

ParseFail == [ok |-> FALSE, cfg |-> ZeroConfig]

\* A JSON string starting at b[i]: [ok, val, next]
ParseString(b, i) ==
    LET close == {j \in (i + 1)..Len(b) : b[j] = "\""}
    IN  IF i > Len(b) \/ b[i] # "\"" \/ close = {}
        THEN [ok |-> FALSE, val |-> <<>>, next |-> i]
        ELSE LET j == CHOOSE m \in close : \A k \in close : m <= k
             IN  [ok |-> TRUE,
                  val |-> [k \in 1..(j - i - 1) |-> UnescapeToken(b[i + k])],
                  next |-> j + 1]

RECURSIVE ParseMembers(_, _, _, _)
ParseMembers(b, i, c, first) ==
    IF i > Len(b) THEN ParseFail
    ELSE IF b[i] = "}"
    THEN IF \A k \in (i + 1)..Len(b) : b[k] = "\n"
         THEN [ok |-> TRUE, cfg |-> c] ELSE ParseFail
    ELSE LET k == IF first THEN i ELSE i + 1
         IN  IF (~first /\ b[i] # ",") \/ k > Len(b) THEN ParseFail
             ELSE IF b[k] \notin {"\"uri\":", "\"db\":"} THEN ParseFail
             ELSE LET s == ParseString(b, k + 1)
                  IN  IF ~s.ok THEN ParseFail
                      ELSE ParseMembers(b, s.next,
                              IF b[k] = "\"uri\":" THEN [c EXCEPT !.URI = s.val]
                                                   ELSE [c EXCEPT !.DB = s.val],
                              FALSE)

\* json.Unmarshal(b, &cfg)
JsonUnmarshal(b) ==
    IF b = <<>> \/ b[1] # "{" THEN ParseFail
    ELSE ParseMembers(b, 2, ZeroConfig, TRUE)
-----------------------------------------------------------------------------
(* path/filepath and os on the output file system *)

\* filepath.Clean for the paths of the model: trailing separators removed
RECURSIVE Clean(_)
Clean(p) ==
    IF Len(p) > 1 /\ p[Len(p)] = "/" THEN Clean(SubSeq(p, 1, Len(p) - 1)) ELSE p

\* filepath.Dir: all but the last element, "." when there is none
Dir(p) ==
    LET seps == {i \in 1..Len(p) : p[i] = "/"}
    IN  IF seps = {} THEN <<".">>
        ELSE LET i == CHOOSE j \in seps : \A k \in seps : k <= j
             IN  Clean(SubSeq(p, 1, i))

\* filepath.Ext: the suffix beginning at the final dot of the final element
Ext(p) ==
    LET seps == {i \in 1..Len(p) : p[i] = "/"}
        last == IF seps = {} THEN 0 ELSE CHOOSE j \in seps : \A k \in seps : k <= j
        dots == {i \in (last + 1)..Len(p) : p[i] = "."}
    IN  IF dots = {} THEN <<>>
        ELSE LET d == CHOOSE j \in dots : \A k \in dots : k <= j
             IN  SubSeq(p, d, Len(p))

\* filepath.Join(a, b)
Join(a, b) == Clean(a) \o <<"/">> \o b

\* The directories MkdirAll(p) makes sure exist: p and its parents
RECURSIVE Ancestors(_)
Ancestors(p) ==
    IF Dir(p) = <<".">> THEN {Clean(p)} ELSE {Clean(p)} \cup Ancestors(Dir(p))

\* os.Stat(p): "dir", "file" or "err"
Stat(p, ds, fs) ==
    IF Clean(p) \in ds THEN "dir"
    ELSE IF Clean(p) \in DOMAIN fs /\ ~HasSuffix(p, <<"/">>) THEN "file"
    ELSE "err"

\* isProbablyDir comparing the extension without strings.ToLower
isProbablyDir_CaseSensitive(path, ds, fs) ==
    IF Stat(path, ds, fs) # "err" THEN Stat(path, ds, fs) = "dir"
    ELSE IF HasSuffix(path, <<"/">>) THEN TRUE
    ELSE LET ext == Ext(path)
         IN  IF ext = <<".", "json">> \/ ext = <<".", "jsonl">> THEN FALSE
             ELSE TRUE

isProbablyDir(path, ds, fs) ==
    IF Stat(path, ds, fs) # "err" THEN Stat(path, ds, fs) = "dir"
    ELSE IF HasSuffix(path, <<"/">>) THEN TRUE
    ELSE LET ext == ToLower(Ext(path))
         IN  IF ext = <<".", "json">> \/ ext = <<".", "jsonl">> THEN FALSE
             ELSE TRUE

\* Whether os.MkdirAll(p) can succeed: no component is a regular file
CanMkdirAll(p, fs) == Ancestors(p) \cap DOMAIN fs = {}

\* Whether os.Create(p) can succeed: the parent exists and p is no directory
CanCreate(p, ds, fs) ==
    /\ Clean(p) \notin ds
    /\ ~HasSuffix(p, <<"/">>)
    /\ (Dir(p) = <<".">> \/ Dir(p) \in ds)
-----------------------------------------------------------------------------
(* The MongoDB server and BSON documents *)

\* Documents returned by a cursor of the largest collection.
MaxDocs == 2

Int32(n) == [t |-> "int", v |-> <<n>>]
StrVal(s) == [t |-> "str", v |-> s]
SubDoc(d) == [t |-> "doc", v |-> d]

\* The documents of collection "users": the i-th has _id i; one has a string
\* with a line break, one has a field _meta of its own.
UserDoc(i) ==
    CASE i % 3 = 1 -> ("_id" :> Int32(ToString(i))) @@ ("name" :> StrVal(<<"a", "\n", "b">>))
      [] i % 3 = 2 -> ("_id" :> Int32(ToString(i))) @@ ("_meta" :> StrVal(<<"x">>))
      [] OTHER -> ("_id" :> Int32(ToString(i))) @@ ("name" :> StrVal(<<"\"", "q">>))

LogDoc == ("_id" :> Int32("7")) @@ ("_meta" :> StrVal(<<"y">>))

\* Database name -> the collections in the order ListCollectionNames returns
Server(db) ==
    CASE db = <<"d">> ->
            << [name |-> <<"users">>, docs |-> [i \in 1..MaxDocs |-> UserDoc(i)]],
               [name |-> <<"logs">>, docs |-> <<LogDoc>>],
               [name |-> <<"logs", "2">>, docs |-> <<>>] >>
      [] db = <<"o">> ->
            << [name |-> <<"logs">>, docs |-> <<LogDoc>>] >>
      [] OTHER -> <<>>

CollectionNames(db) == [i \in 1..Len(Server(db)) |-> Server(db)[i].name]

DocsOf(db, name) ==
    LET at == {i \in 1..Len(Server(db)) : Server(db)[i].name = name}
    IN  IF at = {} THEN <<>> ELSE Server(db)[CHOOSE i \in at : TRUE].docs

\* Extended JSON string escaping: a line break or a quote inside a string
\* value is written as an escape, never raw
ExtEscapeToken(c) ==
    CASE c = "\n" -> "\\n"
      [] c = "\"" -> "\\\""
      [] OTHER -> c

ExtUnescapeToken(c) ==
    CASE c = "\\n" -> "\n"
      [] c = "\\\"" -> "\""
      [] OTHER -> c

ExtQuote(s) == <<"\"">> \o [i \in 1..Len(s) |-> ExtEscapeToken(s[i])] \o <<"\"">>

\* The Extended JSON text of one value, canonical or relaxed
RenderValue(x, canonical) ==
    CASE x.t = "int" ->
            IF canonical THEN <<"{", "\"$numberInt\":", "\"">> \o x.v \o <<"\"", "}">>
            ELSE x.v
      [] x.t = "str" -> ExtQuote(x.v)
      [] OTHER ->
            <<"{", "\"collection\":">> \o ExtQuote(x.v.collection)
                \o <<",", "\"db\":">> \o ExtQuote(x.v.db) \o <<"}">>

\* bson.MarshalExtJSON(doc, canonical, escapeHTML): one token holding the
\* text of every field; the text has no line break of its own (only
\* MarshalExtJSONIndent indents)
MarshalExtJSON(d, canonical, escapeHTML) ==
    <<[k |-> "json", fields |-> [f \in DOMAIN d |-> RenderValue(d[f], canonical)]]>>

Newline == <<[k |-> "nl"]>>

\* doc["_meta"] = bson.M{"db": dbName, "collection": collName}
SetMeta(d, db, collName) ==
    [f \in DOMAIN d \cup {"_meta"} |->
        IF f = "_meta" THEN SubDoc([db |-> db, collection |-> collName]) ELSE d[f]]

-----------------------------------------------------------------------------
(* bufio.Writer over an output file *)

NewWriter == [buf |-> <<>>, err |-> FALSE]

\* Writer.Flush: [w, content, ok]
Flush(wr, content, full) ==
    IF wr.err THEN [w |-> wr, content |-> content, ok |-> FALSE]
    ELSE IF wr.buf = <<>> THEN [w |-> wr, content |-> content, ok |-> TRUE]
    ELSE IF full THEN [w |-> [wr EXCEPT !.err = TRUE], content |-> content, ok |-> FALSE]
    ELSE [w |-> [wr EXCEPT !.buf = <<>>], content |-> content \o wr.buf, ok |-> TRUE]

\* Writer.Write(p): [w, content, ok]
RECURSIVE BufWrite(_, _, _, _)
BufWrite(wr, content, p, full) ==
    LET avail == BufSize - Len(wr.buf)
    IN  IF Len(p) > avail /\ ~wr.err
        THEN IF wr.buf = <<>>
             THEN \* large write, empty buffer: written directly
                  IF full THEN [w |-> [wr EXCEPT !.err = TRUE], content |-> content,
                                ok |-> FALSE]
                  ELSE [w |-> wr, content |-> content \o p, ok |-> TRUE]
             ELSE LET filled == [wr EXCEPT !.buf = @ \o SubSeq(p, 1, avail)]
                      f == Flush(filled, content, full)
                  IN  BufWrite(f.w, f.content, SubSeq(p, avail + 1, Len(p)), full)
        ELSE IF wr.err THEN [w |-> wr, content |-> content, ok |-> FALSE]
        ELSE [w |-> [wr EXCEPT !.buf = @ \o p], content |-> content, ok |-> TRUE]
-----------------------------------------------------------------------------
(* The process: one command at a time *)

NoCursor == [open |-> FALSE, coll |-> <<>>, pos |-> 0, err |-> FALSE]
EmptyDoc == ("_id" :> Int32("0"))

locals == <<cfg, dbName, exSet, isDir, colls, ci, cur, count, doc, w, openFile>>
outputFS == <<dirs, files, diskFull>>
history == <<errs, accepted, created>>

\* A fresh process: os.Args parsed into the command's flags
StartProcess(a) ==
    /\ pc \in {"idle", "exited"}
    /\ args' = a
    /\ stdout' = <<>>
    /\ calls' = {}
    /\ cfg' = ZeroConfig
    /\ dbName' = <<>>
    /\ exSet' = {}
    /\ isDir' = FALSE
    /\ colls' = <<>>
    /\ ci' = 1
    /\ cur' = NoCursor
    /\ count' = 0
    /\ doc' = EmptyDoc
    /\ w' = NewWriter
    /\ openFile' = NoPath
    /\ prevCfgFile' = cfgFile
    /\ accepted' = <<>>
    /\ created' = {}
    /\ UNCHANGED <<cfgFile, tmpFile, dirs, files, diskFull, savedCfg>>

\* fatal(err): the error is printed to stderr and the process exits with
\* status 1; os.Exit runs no deferred function
fatal(op) ==
    /\ pc' = "exited"
    /\ exitStatus' = 1
    /\ errs' = errs \cup {op}

\* The process is stopped from outside (SIGKILL, power loss of the terminal)
Kill ==
    /\ pc \notin {"idle", "exited"}
    /\ pc' = "exited"
    /\ exitStatus' = 137
    /\ UNCHANGED <<args, stdout, calls, locals, cfgFile, tmpFile, prevCfgFile,
                   outputFS, runs, savedCfg, history>>

\* loadConfig without its check of cfg.URI and cfg.DB
loadConfig_NoValidation(file) ==
    IF file = Absent THEN ParseFail ELSE JsonUnmarshal(file)

\* loadConfig: [ok, cfg] from the content of config.json
loadConfig(file) ==
    IF file = Absent THEN ParseFail
    ELSE LET u == JsonUnmarshal(file)
         IN  IF ~u.ok THEN ParseFail
             ELSE IF u.cfg.URI = <<>> \/ u.cfg.DB = <<>> THEN ParseFail
             ELSE u

-----------------------------------------------------------------------------
(* connect *)

ConnectArgs(uri, db) ==
    [cmd |-> "connect", uri |-> uri, db |-> db, exclude |-> <<>>, output |-> <<>>,
     pretty |-> FALSE]

\* connectCmd up to the flag check
ConnectStart(uri, db) ==
    /\ runs < MaxRuns
    /\ StartProcess(ConnectArgs(uri, db))
    /\ runs' = runs + 1
    /\ IF uri = <<>> \/ db = <<>>
       THEN pc' = "exited" /\ exitStatus' = 1 /\ errs' = {"flags"}
       ELSE pc' = "c_connect" /\ exitStatus' = NoExit /\ errs' = {}

\* mongo.Connect(ctx, ApplyURI(*uri))
ConnectDial ==
    /\ pc = "c_connect"
    /\ calls' = calls \cup {[op |-> "Connect", uri |-> args.uri]}
    /\ \E ok \in BOOLEAN :
         IF ok THEN pc' = "c_ping" /\ UNCHANGED <<exitStatus, errs>>
         ELSE fatal("Connect")
    /\ UNCHANGED <<args, stdout, locals, cfgFile, tmpFile, prevCfgFile, outputFS,
                   runs, savedCfg, accepted, created>>

\* connectCmd going on to saveConfig whatever Ping returned
ConnectPing_ErrorIgnored ==
    /\ pc = "c_ping"
    /\ calls' = calls \cup {[op |-> "Ping", uri |-> args.uri]}
    /\ \E ok \in BOOLEAN :
         /\ pc' = "c_save"
         /\ errs' = IF ok THEN errs ELSE errs \cup {"Ping"}
         /\ UNCHANGED exitStatus
    /\ UNCHANGED <<args, stdout, locals, cfgFile, tmpFile, prevCfgFile, outputFS,
                   runs, savedCfg, accepted, created>>

\* client.Ping(ctx, nil); a timeout of ctx is an error of Ping
ConnectPing ==
    /\ pc = "c_ping"
    /\ calls' = calls \cup {[op |-> "Ping", uri |-> args.uri]}
    /\ \E ok \in BOOLEAN :
         IF ok THEN pc' = "c_save" /\ UNCHANGED <<exitStatus, errs>>
         ELSE fatal("Ping")
    /\ UNCHANGED <<args, stdout, locals, cfgFile, tmpFile, prevCfgFile, outputFS,
                   runs, savedCfg, accepted, created>>

\* saveConfig: configPath, MkdirAll and os.Create(tmp)
SaveCreate ==
    /\ pc = "c_save"
    /\ \E ok \in BOOLEAN :
         IF ok THEN /\ tmpFile' = <<>>
                    /\ pc' = "c_encode"
                    /\ UNCHANGED <<exitStatus, errs>>
         ELSE /\ fatal("saveConfig")
              /\ UNCHANGED tmpFile
    /\ UNCHANGED <<args, stdout, calls, locals, cfgFile, prevCfgFile, outputFS,
                   runs, savedCfg, accepted, created>>

\* The lengths a write of b may reach: nothing, a part, all of it
WrittenLengths(b) == {0, Len(b) \div 2, Len(b)}

\* saveConfig encoding into config.json itself instead of the temp file
SaveEncode_InPlace ==
    /\ pc = "c_encode"
    /\ LET b == JsonEncode([URI |-> args.uri, DB |-> args.db])
       IN  \E n \in WrittenLengths(b) :
             /\ cfgFile' = SubSeq(b, 1, n)
             /\ tmpFile' = SubSeq(b, 1, n)
             /\ IF n = Len(b)
                THEN pc' = "c_close" /\ UNCHANGED <<exitStatus, errs>>
                ELSE fatal("saveConfig")
    /\ UNCHANGED <<args, stdout, calls, locals, prevCfgFile, outputFS, runs,
                   savedCfg, accepted, created>>

\* saveConfig: enc.Encode(cfg) writes the encoding to the temp file; a short
\* write is an error, after which the file is closed and the error returned
SaveEncode ==
    /\ pc = "c_encode"
    /\ LET b == JsonEncode([URI |-> args.uri, DB |-> args.db])
       IN  \E n \in WrittenLengths(b) :
             /\ tmpFile' = SubSeq(b, 1, n)
             /\ IF n = Len(b)
                THEN pc' = "c_close" /\ UNCHANGED <<exitStatus, errs>>
                ELSE fatal("saveConfig")
    /\ UNCHANGED <<args, stdout, calls, locals, cfgFile, prevCfgFile, outputFS,
                   runs, savedCfg, accepted, created>>

\* saveConfig: f.Close()
SaveClose ==
    /\ pc = "c_close"
    /\ \E ok \in BOOLEAN :
         IF ok THEN pc' = "c_rename" /\ UNCHANGED <<exitStatus, errs>>
         ELSE fatal("saveConfig")
    /\ UNCHANGED <<args, stdout, calls, locals, cfgFile, tmpFile, prevCfgFile,
                   outputFS, runs, savedCfg, accepted, created>>

\* saveConfig: os.Rename(tmp, path), atomic
SaveRename ==
    /\ pc = "c_rename"
    /\ \E ok \in BOOLEAN :
         IF ok THEN /\ cfgFile' = tmpFile
                    /\ tmpFile' = Absent
                    /\ savedCfg' = [URI |-> args.uri, DB |-> args.db]
                    /\ pc' = "c_ok"
                    /\ UNCHANGED <<exitStatus, errs>>
         ELSE /\ fatal("saveConfig")
              /\ UNCHANGED <<cfgFile, tmpFile, savedCfg>>
    /\ UNCHANGED <<args, stdout, calls, locals, prevCfgFile, outputFS, runs,
                   accepted, created>>

\* fmt.Println("OK: connected and config saved.") and the return of connectCmd
ConnectOK ==
    /\ pc = "c_ok"
    /\ stdout' = Append(stdout, [m |-> "OK: connected and config saved."])
    /\ pc' = "exited"
    /\ exitStatus' = 0
    /\ UNCHANGED <<args, calls, locals, cfgFile, tmpFile, prevCfgFile, outputFS,
                   runs, savedCfg, history>>

-----------------------------------------------------------------------------
(* list *)

ListArgs(dbOverride) ==
    [cmd |-> "list", uri |-> <<>>, db |-> dbOverride, exclude |-> <<>>,
     output |-> <<>>, pretty |-> FALSE]

\* listCmd: the flags are parsed
ListStart(dbOverride) ==
    /\ runs < MaxRuns
    /\ StartProcess(ListArgs(dbOverride))
    /\ runs' = runs + 1
    /\ pc' = "l_load"
    /\ exitStatus' = NoExit
    /\ errs' = {}

\* listCmd: loadConfig and the choice of the database name
ListLoad ==
    /\ pc = "l_load"
    /\ LET l == loadConfig(cfgFile)
       IN  IF ~l.ok
           THEN fatal("loadConfig") /\ UNCHANGED <<cfg, dbName>>
           ELSE /\ cfg' = l.cfg
                /\ dbName' = IF args.db # <<>> THEN args.db ELSE l.cfg.DB
                /\ pc' = "l_connect"
                /\ UNCHANGED <<exitStatus, errs>>
    /\ UNCHANGED <<args, stdout, calls, exSet, isDir, colls, ci, cur, count, doc,
                   w, openFile, cfgFile, tmpFile, prevCfgFile, outputFS, runs, savedCfg,
                   accepted, created>>

\* listCmd: mongo.Connect(ctx, ApplyURI(cfg.URI))
ListConnect ==
    /\ pc = "l_connect"
    /\ calls' = calls \cup {[op |-> "Connect", uri |-> cfg.URI]}
    /\ \E ok \in BOOLEAN :
         IF ok THEN pc' = "l_dbs" /\ UNCHANGED <<exitStatus, errs>>
         ELSE fatal("Connect")
    /\ UNCHANGED <<args, stdout, locals, cfgFile, tmpFile, prevCfgFile, outputFS,
                   runs, savedCfg, accepted, created>>

\* listCmd: ListDatabaseNames and its print
ListDatabases ==
    /\ pc = "l_dbs"
    /\ calls' = calls \cup {[op |-> "ListDatabaseNames", uri |-> cfg.URI]}
    /\ \E ok \in BOOLEAN :
         IF ok THEN /\ stdout' = stdout \o <<[m |-> "Databases:"],
                                            [m |-> "Collections in", db |-> dbName]>>
                    /\ pc' = "l_colls"
                    /\ UNCHANGED <<exitStatus, errs>>
         ELSE fatal("ListDatabaseNames") /\ UNCHANGED stdout
    /\ UNCHANGED <<args, locals, cfgFile, tmpFile, prevCfgFile, outputFS, runs, savedCfg,
                   accepted, created>>

\* listCmd: ListCollectionNames of dbName, its print, and the return
ListCollections ==
    /\ pc = "l_colls"
    /\ calls' = calls \cup {[op |-> "ListCollectionNames", uri |-> dbName]}
    /\ \E ok \in BOOLEAN :
         IF ok THEN /\ stdout' = Append(stdout,
                                    [m |-> "names", colls |-> CollectionNames(dbName)])
                    /\ pc' = "exited"
                    /\ exitStatus' = 0
                    /\ UNCHANGED errs
         ELSE fatal("ListCollectionNames") /\ UNCHANGED stdout
    /\ UNCHANGED <<args, locals, cfgFile, tmpFile, prevCfgFile, outputFS, runs, savedCfg,
                   accepted, created>>
-----------------------------------------------------------------------------
(* backup *)

BackupArgs(exclude, output, pretty, dbOverride) ==
    [cmd |-> "backup", uri |-> <<>>, db |-> dbOverride, exclude |-> exclude,
     output |-> output, pretty |-> pretty]

\* backupCmd up to the check of --output. A backup is the last command of a
\* session: connect and list never read what it writes.
BackupStart(limit, exclude, output, pretty, dbOverride) ==
    /\ runs < limit
    /\ StartProcess(BackupArgs(exclude, output, pretty, dbOverride))
    /\ runs' = limit
    /\ IF output = <<>>
       THEN pc' = "exited" /\ exitStatus' = 1 /\ errs' = {"flags"}
       ELSE pc' = "b_load" /\ exitStatus' = NoExit /\ errs' = {}

\* The set built from splitCSV(*exclude)
ExcludeSet(exclude) == Range(splitCSV(exclude))

\* backupCmd: loadConfig, the database name and the exclusion set
BackupLoad ==
    /\ pc = "b_load"
    /\ LET l == loadConfig(cfgFile)
       IN  IF ~l.ok
           THEN fatal("loadConfig") /\ UNCHANGED <<cfg, dbName, exSet>>
           ELSE /\ cfg' = l.cfg
                /\ dbName' = IF args.db # <<>> THEN args.db ELSE l.cfg.DB
                /\ exSet' = ExcludeSet(args.exclude)
                /\ pc' = "b_connect"
                /\ UNCHANGED <<exitStatus, errs>>
    /\ UNCHANGED <<args, stdout, calls, isDir, colls, ci, cur, count, doc, w,
                   openFile, cfgFile, tmpFile, prevCfgFile, outputFS, runs, savedCfg,
                   accepted, created>>

\* backupCmd: mongo.Connect(ctx, ApplyURI(cfg.URI))
BackupConnect ==
    /\ pc = "b_connect"
    /\ calls' = calls \cup {[op |-> "Connect", uri |-> cfg.URI]}
    /\ \E ok \in BOOLEAN :
         IF ok THEN pc' = "b_listcolls" /\ UNCHANGED <<exitStatus, errs>>
         ELSE fatal("Connect")
    /\ UNCHANGED <<args, stdout, locals, cfgFile, tmpFile, prevCfgFile, outputFS,
                   runs, savedCfg, accepted, created>>

\* backupCmd: db.ListCollectionNames(ctx, bson.M{})
BackupListCollections ==
    /\ pc = "b_listcolls"
    /\ calls' = calls \cup {[op |-> "ListCollectionNames", uri |-> dbName]}
    /\ \E ok \in BOOLEAN :
         IF ok THEN /\ colls' = CollectionNames(dbName)
                    /\ pc' = "b_mkdir"
                    /\ UNCHANGED <<exitStatus, errs>>
         ELSE fatal("ListCollectionNames") /\ UNCHANGED colls
    /\ UNCHANGED <<args, stdout, cfg, dbName, exSet, isDir, ci, cur, count, doc, w,
                   openFile, cfgFile, tmpFile, prevCfgFile, outputFS, runs, savedCfg,
                   accepted, created>>

\* backupCmd: the output mode and MkdirAll of the directory
BackupMkdir ==
    /\ pc = "b_mkdir"
    /\ LET d == isProbablyDir(args.output, dirs, files)
           target == IF d THEN args.output ELSE Dir(args.output)
       IN  /\ isDir' = d
           /\ \E ok \in BOOLEAN :
                IF ok /\ CanMkdirAll(target, files)
                THEN /\ dirs' = dirs \cup (Ancestors(target) \ {<<".">>})
                     /\ stdout' = Append(stdout, [m |-> IF d THEN "Writing one file per collection into"
                                                              ELSE "Writing merged output into"])
                     /\ pc' = IF d THEN "b_loop" ELSE "b_create"
                     /\ UNCHANGED <<exitStatus, errs>>
                ELSE fatal("MkdirAll") /\ UNCHANGED <<dirs, stdout>>
    /\ UNCHANGED <<args, calls, cfg, dbName, exSet, colls, ci, cur, count, doc, w,
                   openFile, cfgFile, tmpFile, prevCfgFile, files, diskFull, runs, savedCfg,
                   accepted, created>>

\* backupCmd: os.Create(*output) and the merged writer
BackupCreateMerged ==
    /\ pc = "b_create"
    /\ \E ok \in BOOLEAN :
         IF ok /\ CanCreate(args.output, dirs, files)
         THEN /\ files' = (args.output :> <<>>) @@ files
              /\ created' = created \cup {args.output}
              /\ openFile' = args.output
              /\ w' = NewWriter
              /\ pc' = "b_loop"
              /\ UNCHANGED <<exitStatus, errs>>
         ELSE fatal("Create") /\ UNCHANGED <<files, created, openFile, w>>
    /\ UNCHANGED <<args, stdout, calls, cfg, dbName, exSet, isDir, colls, ci, cur,
                   count, doc, cfgFile, tmpFile, prevCfgFile, dirs, diskFull, runs, savedCfg,
                   accepted>>

\* Exclusion by prefix instead of by exact name
IsExcluded_Prefix(set, collName) ==
    \E e \in set : Len(e) <= Len(collName) /\ SubSeq(collName, 1, Len(e)) = e

\* exSet[collName]
IsExcluded(set, collName) == collName \in set

\* backupCmd: an excluded collection is skipped
BackupSkip ==
    /\ pc = "b_loop"
    /\ ci <= Len(colls)
    /\ IsExcluded(exSet, colls[ci])
    /\ stdout' = Append(stdout, [m |-> "Skipping excluded collection", coll |-> colls[ci]])
    /\ ci' = ci + 1
    /\ UNCHANGED <<pc, args, exitStatus, calls, cfg, dbName, exSet, isDir, colls,
                   cur, count, doc, w, openFile, cfgFile, tmpFile, prevCfgFile,
                   outputFS, runs, savedCfg, history>>

\* backupCmd: coll.Find(ctx, bson.M{}, findOpts)
BackupFind ==
    /\ pc = "b_loop"
    /\ ci <= Len(colls)
    /\ ~IsExcluded(exSet, colls[ci])
    /\ calls' = calls \cup {[op |-> "Find", uri |-> dbName, coll |-> colls[ci]]}
    /\ \E ok \in BOOLEAN :
         IF ok THEN /\ cur' = [open |-> TRUE, coll |-> colls[ci], pos |-> 0, err |-> FALSE]
                    /\ pc' = "b_open"
                    /\ UNCHANGED <<exitStatus, errs>>
         ELSE fatal("Find") /\ UNCHANGED cur
    /\ UNCHANGED <<args, stdout, cfg, dbName, exSet, isDir, colls, ci, count, doc,
                   w, openFile, cfgFile, tmpFile, prevCfgFile, outputFS, runs, savedCfg,
                   accepted, created>>

\* The per-collection file of directory mode: <output>/<db>.<collection>.jsonl
CollectionPath(output, db, collName) ==
    Join(output, db \o <<".">> \o collName \o <<".", "jsonl">>)

\* backupCmd: the writer of the collection: a new file and bufio.Writer in
\* directory mode, the merged writer otherwise
BackupOpen ==
    /\ pc = "b_open"
    /\ IF isDir
       THEN LET path == CollectionPath(args.output, dbName, cur.coll)
            IN  \E ok \in BOOLEAN :
                  IF ok /\ CanCreate(path, dirs, files)
                  THEN /\ files' = (path :> <<>>) @@ files
                       /\ created' = created \cup {path}
                       /\ openFile' = path
                       /\ w' = NewWriter
                       /\ stdout' = Append(stdout, [m |-> "Backing up", coll |-> cur.coll])
                       /\ count' = 0
                       /\ pc' = "b_next"
                       /\ UNCHANGED <<cur, exitStatus, errs>>
                  ELSE /\ cur' = [cur EXCEPT !.open = FALSE]
                       /\ fatal("Create")
                       /\ UNCHANGED <<files, created, openFile, w, stdout, count>>
       ELSE /\ stdout' = Append(stdout, [m |-> "Backing up", coll |-> cur.coll])
            /\ count' = 0
            /\ pc' = "b_next"
            /\ UNCHANGED <<files, created, openFile, w, cur, exitStatus, errs>>
    /\ UNCHANGED <<args, calls, cfg, dbName, exSet, isDir, colls, ci, doc, cfgFile,
                   tmpFile, prevCfgFile, dirs, diskFull, runs, savedCfg, accepted>>

\* The error path of the collection loop: cur.Close, then in directory mode
\* bw.Flush and file.Close with their errors dropped, then fatal
AbortCollection(op, wr, content) ==
    /\ cur' = [cur EXCEPT !.open = FALSE]
    /\ IF isDir
       THEN LET f == Flush(wr, content, diskFull)
            IN  /\ w' = f.w
                /\ files' = [files EXCEPT ![openFile] = f.content]
                /\ openFile' = NoPath
                /\ errs' = errs \cup {op} \cup (IF f.ok THEN {} ELSE {"Flush"})
       ELSE /\ w' = wr
            /\ files' = [files EXCEPT ![openFile] = content]
            /\ UNCHANGED openFile
            /\ errs' = errs \cup {op}
    /\ pc' = "exited"
    /\ exitStatus' = 1

\* backupCmd: cur.Next(ctx)
BackupNext ==
    /\ pc = "b_next"
    /\ \/ /\ cur.pos < Len(DocsOf(dbName, cur.coll))
          /\ cur' = [cur EXCEPT !.pos = @ + 1]
          /\ pc' = "b_decode"
       \/ /\ cur.pos = Len(DocsOf(dbName, cur.coll))
          /\ pc' = "b_after"
          /\ UNCHANGED cur
       \/ /\ cur' = [cur EXCEPT !.err = TRUE]
          /\ pc' = "b_after"
    /\ UNCHANGED <<args, exitStatus, stdout, calls, cfg, dbName, exSet, isDir,
                   colls, ci, count, doc, w, openFile, cfgFile, tmpFile,
                   prevCfgFile, outputFS, runs, savedCfg, history>>

\* backupCmd: cur.Decode(&doc) and, in merged mode, the _meta field
BackupDecode ==
    /\ pc = "b_decode"
    /\ \E ok \in BOOLEAN :
         IF ok
         THEN /\ LET d == DocsOf(dbName, cur.coll)[cur.pos]
                 IN  doc' = IF isDir THEN d ELSE SetMeta(d, dbName, cur.coll)
              /\ pc' = "b_write"
              /\ UNCHANGED <<cur, w, files, openFile, exitStatus, errs>>
         ELSE AbortCollection("Decode", w, files[openFile]) /\ UNCHANGED doc
    /\ UNCHANGED <<args, stdout, calls, cfg, dbName, exSet, isDir, colls, ci,
                   count, cfgFile, tmpFile, prevCfgFile, dirs, diskFull, runs, savedCfg,
                   accepted, created>>

\* backupCmd: bson.MarshalExtJSON(doc, *pretty, false) and w.Write(extJSON)
BackupWrite ==
    /\ pc = "b_write"
    /\ \E ok \in BOOLEAN :
         IF ~ok
         THEN AbortCollection("Marshal", w, files[openFile]) /\ UNCHANGED accepted
         ELSE LET extJSON == MarshalExtJSON(doc, args.pretty, FALSE)
                  r == BufWrite(w, files[openFile], extJSON, diskFull)
              IN  IF r.ok
                  THEN /\ w' = r.w
                       /\ files' = [files EXCEPT ![openFile] = r.content]
                       /\ accepted' = Append(accepted, [file |-> openFile, bytes |-> extJSON,
                                                    coll |-> cur.coll, pos |-> cur.pos])
                       /\ pc' = "b_newline"
                       /\ UNCHANGED <<cur, openFile, exitStatus, errs>>
                  ELSE AbortCollection("Write", r.w, r.content) /\ UNCHANGED accepted
    /\ UNCHANGED <<args, stdout, calls, cfg, dbName, exSet, isDir, colls, ci,
                   count, doc, cfgFile, tmpFile, prevCfgFile, dirs, diskFull, runs, savedCfg,
                   created>>

\* backupCmd: w.Write([]byte("\n")) and count++
BackupNewline ==
    /\ pc = "b_newline"
    /\ LET r == BufWrite(w, files[openFile], Newline, diskFull)
       IN  IF r.ok
           THEN /\ w' = r.w
                /\ files' = [files EXCEPT ![openFile] = r.content]
                /\ accepted' = Append(accepted, [file |-> openFile, bytes |-> Newline,
                                             coll |-> cur.coll, pos |-> cur.pos])
                /\ count' = count + 1
                /\ pc' = "b_next"
                /\ UNCHANGED <<cur, openFile, exitStatus, errs>>
           ELSE AbortCollection("Write", r.w, r.content) /\ UNCHANGED <<accepted, count>>
    /\ UNCHANGED <<args, stdout, calls, cfg, dbName, exSet, isDir, colls, ci, doc,
                   cfgFile, tmpFile, prevCfgFile, dirs, diskFull, runs, savedCfg, created>>

\* backupCmd: cur.Err, cur.Close, in directory mode bw.Flush and file.Close
\* with their errors dropped, and the "Done" line
BackupAfter ==
    /\ pc = "b_after"
    /\ IF cur.err
       THEN AbortCollection("cursor", w, files[openFile]) /\ UNCHANGED <<stdout, ci>>
       ELSE /\ cur' = [cur EXCEPT !.open = FALSE]
            /\ IF isDir
               THEN LET f == Flush(w, files[openFile], diskFull)
                    IN  /\ w' = f.w
                        /\ files' = [files EXCEPT ![openFile] = f.content]
                        /\ openFile' = NoPath
                        /\ \E closed \in BOOLEAN :
                             errs' = errs \cup (IF f.ok THEN {} ELSE {"Flush"})
                                          \cup (IF closed THEN {} ELSE {"Close"})
               ELSE UNCHANGED <<w, files, openFile, errs>>
            /\ stdout' = Append(stdout, [m |-> "Done", coll |-> cur.coll, n |-> count])
            /\ ci' = ci + 1
            /\ pc' = "b_loop"
            /\ UNCHANGED exitStatus
    /\ UNCHANGED <<args, calls, cfg, dbName, exSet, isDir, colls, count, doc,
                   cfgFile, tmpFile, prevCfgFile, dirs, diskFull, runs, savedCfg, accepted,
                   created>>

\* backupCmd: fmt.Println("Backup complete.")
BackupComplete ==
    /\ pc = "b_loop"
    /\ ci > Len(colls)
    /\ stdout' = Append(stdout, [m |-> "Backup complete."])
    /\ pc' = "b_return"
    /\ UNCHANGED <<args, exitStatus, calls, locals, cfgFile, tmpFile, prevCfgFile,
                   outputFS, runs, savedCfg, history>>

\* backupCmd returns: the deferred mergedWriter.Flush and f.Close, their
\* errors dropped, then Disconnect and cancel; main returns, status 0
BackupReturn ==
    /\ pc = "b_return"
    /\ IF isDir
       THEN UNCHANGED <<w, files, openFile, errs>>
       ELSE LET f == Flush(w, files[openFile], diskFull)
            IN  /\ w' = f.w
                /\ files' = [files EXCEPT ![openFile] = f.content]
                /\ openFile' = NoPath
                /\ \E closed \in BOOLEAN :
                     errs' = errs \cup (IF f.ok THEN {} ELSE {"Flush"})
                                  \cup (IF closed THEN {} ELSE {"Close"})
    /\ pc' = "exited"
    /\ exitStatus' = 0
    /\ UNCHANGED <<args, stdout, calls, cfg, dbName, exSet, isDir, colls, ci, cur,
                   count, doc, cfgFile, tmpFile, prevCfgFile, dirs, diskFull, runs, savedCfg,
                   accepted, created>>

\* The environment: the disk of the output files fills up; from then on
\* writes to them fail
DiskFills ==
    /\ pc \in {"b_decode", "b_write", "b_newline", "b_after", "b_return"}
    /\ ~diskFull
    /\ diskFull' = TRUE
    /\ UNCHANGED <<pc, args, exitStatus, stdout, calls, locals, cfgFile, tmpFile,
                   prevCfgFile, dirs, files, runs, savedCfg, history>>
-----------------------------------------------------------------------------
(* Inputs and initial states *)

NoArgs == [cmd |-> "none", uri |-> <<>>, db |-> <<>>, exclude |-> <<>>,
           output |-> <<>>, pretty |-> FALSE]

\* --uri and --db of connect; "xFF" is a byte that is not valid UTF-8
UriInputs == {<<>>, <<"m">>, <<"m", "<">>}
DbInputs == {<<>>, <<"d">>, <<"xFF">>}

\* --db of list and backup
DbOverrideInputs == {<<>>, <<"o">>}

\* --exclude of backup
ExcludeInputs == {<<>>, <<" ", "logs", " ", ",", ",", "users", " ">>, <<"logs", ",", "log">>}

\* --output of backup
OutputInputs ==
    { <<>>,
      <<"out", ".", "json">>,            \* an existing directory
      <<"data">>,                        \* an existing regular file
      <<"new", ".", "json", "/">>,       \* absent, ends with the separator
      <<"b", ".", "JSON">>,              \* absent, extension in upper case
      <<"x", "/", "b", ".", "jsonl">>,   \* absent, in an absent directory
      <<"a", ".", "json", "/", "bak">>,  \* absent, no extension of its own
      <<"backups">> }                    \* absent

ValidConfigFile == JsonEncode([URI |-> <<"m">>, DB |-> <<"d">>])

\* config.json before the first command: absent, written by an earlier
\* connect, or edited by hand (not JSON; no db)
InitConfigFiles ==
    { Absent, ValidConfigFile, <<"not json">>,
      <<"{", "\"uri\":", "\"", "m", "\"", "}", "\n">> }

StaleToken == [k |-> "json", fields |-> ("_id" :> <<"0">>)]

\* The output file system before the run: a directory named out.json with a
\* file left by an earlier backup, and a regular file named data
InitDirs == {<<"out", ".", "json">>}
InitFiles ==
    (<<"data">> :> <<StaleToken>>)
      @@ (<<"out", ".", "json", "/", "d", ".", "logs", ".", "jsonl">>
            :> <<StaleToken, [k |-> "nl"]>>)

Init ==
    /\ pc = "idle"
    /\ args = NoArgs
    /\ exitStatus = NoExit
    /\ stdout = <<>>
    /\ calls = {}
    /\ cfg = ZeroConfig
    /\ dbName = <<>>
    /\ exSet = {}
    /\ isDir = FALSE
    /\ colls = <<>>
    /\ ci = 1
    /\ cur = NoCursor
    /\ count = 0
    /\ doc = EmptyDoc
    /\ w = NewWriter
    /\ openFile = NoPath
    /\ cfgFile \in InitConfigFiles
    /\ tmpFile = Absent
    /\ prevCfgFile = cfgFile
    /\ dirs = InitDirs
    /\ files = InitFiles
    /\ diskFull = FALSE
    /\ runs = 0
    /\ errs = {}
    /\ accepted = <<>>
    /\ created = {}
    /\ savedCfg = ZeroConfig

BackupSteps ==
    \/ BackupLoad
    \/ BackupConnect
    \/ BackupListCollections
    \/ BackupMkdir
    \/ BackupCreateMerged
    \/ BackupSkip
    \/ BackupFind
    \/ BackupOpen
    \/ BackupNext
    \/ BackupDecode
    \/ BackupWrite
    \/ BackupNewline
    \/ BackupAfter
    \/ BackupComplete
    \/ BackupReturn

\* One backup run, with every flag combination and a disk that may fill up
Next ==
    \/ \E e \in ExcludeInputs, o \in OutputInputs, p \in BOOLEAN, d \in DbOverrideInputs :
         BackupStart(1, e, o, p, d)
    \/ BackupSteps
    \/ DiskFills

Spec == Init /\ [][Next]_vars

\* A session of up to MaxRuns commands: connect and list in any order, a
\* backup last; the process may be stopped at any step
NextConfig ==
    \/ \E u \in UriInputs, d \in DbInputs : ConnectStart(u, d)
    \/ ConnectDial
    \/ ConnectPing
    \/ SaveCreate
    \/ SaveEncode
    \/ SaveClose
    \/ SaveRename
    \/ ConnectOK
    \/ \E d \in DbOverrideInputs : ListStart(d)
    \/ ListLoad
    \/ ListConnect
    \/ ListDatabases
    \/ ListCollections
    \/ \E o \in {<<"backups">>, <<"b", ".", "jsonl">>}, d \in DbOverrideInputs :
         BackupStart(MaxRuns, <<"logs">>, o, FALSE, d)
    \/ BackupSteps
    \/ Kill

SpecConfig == Init /\ [][NextConfig]_vars
-----------------------------------------------------------------------------
(* Properties of the config file (specification SpecConfig) *)

Exited == pc = "exited"
Printed(m) == \E i \in 1..Len(stdout) : stdout[i].m = m
ArgsConfig == [URI |-> args.uri, DB |-> args.db]

\* The complete encodings connect can write
CompleteConfigFiles ==
    {JsonEncode([URI |-> u, DB |-> d]) : u \in UriInputs \ {<<>>}, d \in DbInputs \ {<<>>}}

\* C3: config.json is replaced atomically and the last write wins: in every
\* state, also after a failure or a stop of the process at any step of
\* saveConfig, config.json holds what it held when the command started or
\* the complete encoding of the new config, and never a partial or empty
\* one; after a connect that succeeded it holds the config of that connect.
C3_AtomicLastWriteWins ==
    /\ cfgFile = prevCfgFile
         \/ (args.cmd = "connect" /\ cfgFile = JsonEncode(ArgsConfig))
    /\ cfgFile \in InitConfigFiles \cup CompleteConfigFiles
    /\ (args.cmd = "connect" /\ Exited /\ exitStatus = 0)
         => cfgFile = JsonEncode(ArgsConfig)

\* C3 witness: a second connect succeeded and replaced the config written by
\* the first.
C3_Witness ==
    /\ args.cmd = "connect" /\ Exited /\ exitStatus = 0
    /\ runs = 2
    /\ prevCfgFile \in CompleteConfigFiles \ InitConfigFiles
    /\ cfgFile # prevCfgFile

SavePcs == {"c_save", "c_encode", "c_close", "c_rename", "c_ok"}

\* C4: connect saves the config only after mongo.Connect and Ping both
\* returned without error; with an empty --uri or --db, or a failed Connect
\* or Ping, the process exits with status 1, config.json is what it was and
\* "OK: connected and config saved." is not printed.
C4_SaveOnlyAfterTest ==
    args.cmd = "connect" =>
      /\ (pc \in SavePcs \/ cfgFile # prevCfgFile \/ Printed("OK: connected and config saved."))
           => /\ [op |-> "Connect", uri |-> args.uri] \in calls
              /\ [op |-> "Ping", uri |-> args.uri] \in calls
              /\ errs \cap {"flags", "Connect", "Ping"} = {}
              /\ args.uri # <<>> /\ args.db # <<>>
      /\ (args.uri = <<>> \/ args.db = <<>> \/ errs \cap {"Connect", "Ping"} # {})
           => /\ Exited /\ exitStatus = 1
              /\ cfgFile = prevCfgFile
              /\ ~Printed("OK: connected and config saved.")

\* C4 witness: Ping failed over an existing config, which is unchanged.
C4_Witness ==
    /\ args.cmd = "connect" /\ Exited /\ exitStatus = 1
    /\ "Ping" \in errs
    /\ prevCfgFile = ValidConfigFile
    /\ ArgsConfig # [URI |-> <<"m">>, DB |-> <<"d">>]
    /\ cfgFile = ValidConfigFile

\* A string as encoding/json writes it: bytes that are not valid UTF-8
\* become U+FFFD
ValidUTF8(s) == "xFF" \notin Range(s)
CoerceUTF8(s) == [i \in 1..Len(s) |-> IF s[i] = "xFF" THEN "uFFFD" ELSE s[i]]

Reader == args.cmd \in {"list", "backup"}
LoadPassed == Reader /\ (cfg # ZeroConfig \/ "loadConfig" \in errs)
Killed == Exited /\ exitStatus = 137

\* A config file loadConfig has to refuse: missing, not JSON, no uri or db
Unusable(file) ==
    \/ file = Absent
    \/ ~JsonUnmarshal(file).ok
    \/ JsonUnmarshal(file).cfg.URI = <<>>
    \/ JsonUnmarshal(file).cfg.DB = <<>>

\* What list and backup do with the config, whatever wrote it
ReadersUseConfig ==
    Reader =>
      /\ cfgFile = prevCfgFile
      /\ Unusable(prevCfgFile)
           => /\ calls = {}
              /\ cfg = ZeroConfig
              /\ pc \in {"l_load", "b_load", "exited"}
              /\ Exited => (exitStatus = 1 \/ Killed)
      /\ (LoadPassed /\ "loadConfig" \notin errs)
           => /\ dbName = (IF args.db # <<>> THEN args.db ELSE cfg.DB)
              /\ \A c \in calls : c.op \in {"Connect", "ListDatabaseNames"} => c.uri = cfg.URI
              /\ \A c \in calls : c.op \in {"ListCollectionNames", "Find"} => c.uri = dbName

\* C9 as stated: after a successful saveConfig loadConfig returns exactly
\* the URI and database name given to connect, for every non-empty pair.
C9_Original_ExactRoundTrip ==
    savedCfg # ZeroConfig => loadConfig(cfgFile) = [ok |-> TRUE, cfg |-> savedCfg]

\* C9 amended: after a successful saveConfig loadConfig returns the URI and
\* database name given to connect with every byte that is not valid UTF-8
\* replaced by U+FFFD, hence exactly the pair when both are valid UTF-8; every
\* config connect wrote is accepted by list and backup, which get that pair;
\* a missing, non-JSON or uri/db-less file makes list and backup exit with
\* status 1 without a connection; both use --db when given and the config's
\* db otherwise, connect with the config's URI and never write the file.
C9_RoundTripUpToUTF8 ==
    /\ (args.cmd = "connect" /\ Exited /\ exitStatus = 0)
         => /\ savedCfg = ArgsConfig
            /\ loadConfig(cfgFile) =
                 [ok |-> TRUE,
                  cfg |-> [URI |-> CoerceUTF8(args.uri), DB |-> CoerceUTF8(args.db)]]
            /\ (ValidUTF8(args.uri) /\ ValidUTF8(args.db))
                 => loadConfig(cfgFile).cfg = ArgsConfig
    /\ savedCfg # ZeroConfig
         => /\ loadConfig(cfgFile).ok
            /\ (LoadPassed =>
                  /\ "loadConfig" \notin errs
                  /\ cfg = [URI |-> CoerceUTF8(savedCfg.URI), DB |-> CoerceUTF8(savedCfg.DB)])
    /\ ReadersUseConfig

\* C9 witness: a backup without --db runs on the config a connect of this
\* session wrote, whose URI needed an escape in the file.
C9_Witness ==
    /\ args.cmd = "backup" /\ args.db = <<>>
    /\ savedCfg = [URI |-> <<"m", "<">>, DB |-> <<"d">>]
    /\ [op |-> "Connect", uri |-> <<"m", "<">>] \in calls
    /\ dbName = <<"d">>
    /\ Printed("Backup complete.")
-----------------------------------------------------------------------------
(* Properties of backup (specification Spec) *)

BackupRan == args.cmd = "backup"
Completed == BackupRan /\ Exited /\ exitStatus = 0
CompleteLine == "Backup complete."

\* Reading Extended JSON back: the value a rendered text stands for
ExtParseString(b, i) ==
    LET close == {j \in (i + 1)..Len(b) : b[j] = "\""}
        j == CHOOSE m \in close : \A k \in close : m <= k
    IN  [val |-> [k \in 1..(j - i - 1) |-> ExtUnescapeToken(b[i + k])], next |-> j + 1]

UnrenderValue(r) ==
    IF r[1] = "\"" THEN StrVal(ExtParseString(r, 1).val)
    ELSE IF r[1] = "{" /\ r[2] = "\"$numberInt\":" THEN Int32(r[4])
    ELSE IF r[1] = "{"
    THEN LET c == ExtParseString(r, 3)
             d == ExtParseString(r, c.next + 2)
         IN  SubDoc([db |-> d.val, collection |-> c.val])
    ELSE Int32(r[1])

ParseRecord(tok) == [f \in DOMAIN tok.fields |-> UnrenderValue(tok.fields[f])]

\* A file content of n one-line records, each ended by one line break
OneLine(tok) ==
    /\ tok.k = "json"
    /\ \A f \in DOMAIN tok.fields : "\n" \notin Range(tok.fields[f])

IsJSONL(content, n) ==
    /\ Len(content) = 2 * n
    /\ \A i \in 1..n : OneLine(content[2 * i - 1]) /\ content[2 * i].k = "nl"

RECURSIVE SumDone(_, _)
SumDone(out, names) ==
    IF out = <<>> THEN 0
    ELSE (IF Head(out).m = "Done" /\ Head(out).coll \in names THEN Head(out).n ELSE 0)
            + SumDone(Tail(out), names)

\* The collections whose documents go to file p
CollectionsOf(p) ==
    IF isDir THEN {c \in Range(colls) : CollectionPath(args.output, dbName, c) = p}
    ELSE Range(colls)

RECURSIVE AcceptedBytes(_, _)
AcceptedBytes(acc, p) ==
    IF acc = <<>> THEN <<>>
    ELSE (IF Head(acc).file = p THEN Head(acc).bytes ELSE <<>>) \o AcceptedBytes(Tail(acc), p)

AcceptedDocs(p) ==
    Cardinality({i \in 1..Len(accepted) :
                    accepted[i].file = p /\ accepted[i].bytes[1].k = "json"})

\* The names --exclude excludes: the parts between commas, without their
\* surrounding white space, that are not empty
ExcludedNames(s) ==
    { n \in {SubSeq(s, i, j) : i \in 1..Len(s), j \in 1..Len(s)} :
        /\ n # <<>>
        /\ n[1] # " " /\ n[Len(n)] # " " /\ "," \notin Range(n)
        /\ \E i \in 1..Len(s), j \in 1..Len(s) :
             /\ n = SubSeq(s, i, j)
             /\ \E a \in 0..(i - 1) :
                  /\ (a = 0 \/ s[a] = ",")
                  /\ \A k \in (a + 1)..(i - 1) : s[k] = " "
             /\ \E z \in (j + 1)..(Len(s) + 1) :
                  /\ (z = Len(s) + 1 \/ s[z] = ",")
                  /\ \A k \in (j + 1)..(z - 1) : s[k] = " " }

Touched(n) ==
    \/ \E c \in calls : c.op = "Find" /\ c.coll = n
    \/ CollectionPath(args.output, dbName, n) \in created
    \/ \E i \in 1..Len(accepted) : accepted[i].coll = n
    \/ \E p \in created : \E i \in 1..Len(files[p]) :
         /\ ~isDir
         /\ files[p][i].k = "json"
         /\ ParseRecord(files[p][i])["_meta"].v.collection = n

\* A collection the run went through: found, its file created (directory
\* mode), each of its documents handed to the writer, its count reported
Exported(n) ==
    /\ [op |-> "Find", uri |-> dbName, coll |-> n] \in calls
    /\ isDir => CollectionPath(args.output, dbName, n) \in created
    /\ \A k \in 1..Len(DocsOf(dbName, n)) :
         \E i \in 1..Len(accepted) :
            /\ accepted[i].coll = n /\ accepted[i].pos = k
            /\ accepted[i].bytes[1].k = "json"
    /\ \E i \in 1..Len(stdout) :
         stdout[i] = [m |-> "Done", coll |-> n, n |-> Len(DocsOf(dbName, n))]

\* C1: in every state of a backup run, a collection whose name is excluded
\* (exact match with a comma-separated, trimmed, non-empty part of --exclude)
\* has had no find, no file of its own and no record in the merged file; when
\* the run completes every other collection has been exported.
C1_ExcludeByExactName ==
    BackupRan =>
      /\ cfg # ZeroConfig => exSet = ExcludedNames(args.exclude)
      /\ \A n \in Range(colls) :
           /\ n \in ExcludedNames(args.exclude) => ~Touched(n)
           /\ (n \notin ExcludedNames(args.exclude) /\ Completed) => Exported(n)

\* C1 witness: a completed run whose --exclude has spaces and an empty part,
\* with excluded collections and a collection that is not excluded.
C1_Witness ==
    /\ Completed
    /\ args.exclude = <<" ", "logs", " ", ",", ",", "users", " ">>
    /\ colls = << <<"users">>, <<"logs">>, <<"logs", "2">> >>
    /\ Exported(<<"logs", "2">>)
\* C2: every record handed to the writer has the fields and values of the
\* document read from the collection: exactly those in directory mode; in
\* merged mode all of them with their values, plus _meta = {db, collection},
\* also for a document that has a field _meta of its own.
C2_PassThrough ==
    BackupRan =>
      \A i \in 1..Len(accepted) :
        accepted[i].bytes[1].k = "json" =>
          LET written == ParseRecord(accepted[i].bytes[1])
              src == DocsOf(dbName, accepted[i].coll)[accepted[i].pos]
          IN  IF isDir THEN written = src
              ELSE /\ DOMAIN written = DOMAIN src \cup {"_meta"}
                   /\ \A f \in DOMAIN src : written[f] = src[f]
                   /\ written["_meta"] =
                        SubDoc([db |-> dbName, collection |-> accepted[i].coll])

\* The number of documents reported by the "Done" lines for file p
ReportedFor(p) == SumDone(stdout, CollectionsOf(p))

\* C5: when a backup has completed, every file it created holds one record
\* per line, as many lines as documents written to it and as the "(N docs)"
\* counts of its collections add up to, with --pretty or without.
C5_OneDocumentPerLine ==
    Completed =>
      \A p \in created :
        /\ IsJSONL(files[p], ReportedFor(p))
        /\ AcceptedDocs(p) = ReportedFor(p)

\* The lines of collection n as backup writes them
RECURSIVE ExpectedLines(_, _)
ExpectedLines(n, k) ==
    IF k = 0 THEN <<>>
    ELSE LET d == DocsOf(dbName, n)[k]
         IN  ExpectedLines(n, k - 1)
               \o MarshalExtJSON(IF isDir THEN d ELSE SetMeta(d, dbName, n), args.pretty, FALSE)
               \o Newline

RECURSIVE ExpectedMerged(_)
ExpectedMerged(i) ==
    IF i = 0 THEN <<>>
    ELSE ExpectedMerged(i - 1)
           \o (IF colls[i] \in ExcludedNames(args.exclude) THEN <<>>
               ELSE ExpectedLines(colls[i], Len(DocsOf(dbName, colls[i]))))

\* C6: when "Backup complete." has been printed and the process has ended,
\* directory mode has left one file <db>.<collection>.jsonl per collection
\* that is not excluded, holding that collection's documents in cursor
\* order (none for an empty collection), and none for an excluded one;
\* merged mode has left one file with the documents of the collections that
\* are not excluded, collection after collection in the order of
\* ListCollectionNames; nothing is left in a buffer and no file is open.
C6_CompleteOutput ==
    Completed =>
      /\ w.buf = <<>> /\ openFile = NoPath
      /\ isDir =>
           /\ created = {CollectionPath(args.output, dbName, n) :
                            n \in Range(colls) \ ExcludedNames(args.exclude)}
           /\ \A n \in Range(colls) \ ExcludedNames(args.exclude) :
                files[CollectionPath(args.output, dbName, n)]
                  = ExpectedLines(n, Len(DocsOf(dbName, n)))
      /\ ~isDir =>
           /\ created = {args.output}
           /\ files[args.output] = ExpectedMerged(Len(colls))

\* C7: an error returned by any library operation of a backup run ends the
\* run with status 1 and without "Backup complete."; the line is printed
\* only in runs in which no operation failed.
C7_ErrorsAreFatal ==
    (BackupRan /\ errs # {}) =>
      /\ Exited /\ exitStatus = 1
      /\ ~Printed(CompleteLine)

\* The mode --output asks for, by priority: what exists decides; else a
\* trailing separator means directory; else .json or .jsonl in any case
\* means file; else directory.
ExpectedDirMode(path, ds, fs) ==
    CASE Clean(path) \in ds -> TRUE
      [] path \in DOMAIN fs -> FALSE
      [] path[Len(path)] = "/" -> TRUE
      [] Len(path) >= 2 /\ path[Len(path) - 1] = "."
           /\ path[Len(path)] \in {"json", "JSON", "jsonl", "JSONL"} -> FALSE
      [] OTHER -> TRUE

ModeDecided == BackupRan /\ (Printed("Writing one file per collection into")
                              \/ Printed("Writing merged output into")
                              \/ "MkdirAll" \in errs)

\* C8: the output mode follows the priority order of isProbablyDir, and a
\* backup without --output exits with status 1 before the config is loaded
\* and before any driver call.
C8_OutputMode ==
    /\ ModeDecided =>
         /\ isDir = ExpectedDirMode(args.output, InitDirs, InitFiles)
         /\ Printed("Writing one file per collection into") => isDir
         /\ Printed("Writing merged output into") => ~isDir
    /\ (BackupRan /\ args.output = <<>>) =>
         /\ Exited /\ exitStatus = 1
         /\ cfg = ZeroConfig /\ calls = {} /\ created = {}

\* C8 witness: an existing directory named out.json is written in directory
\* mode in spite of its extension.
C8_Witness ==
    /\ Completed
    /\ args.output = <<"out", ".", "json">>
    /\ isDir
    /\ created # {}

\* C10: when a backup ends in a fatal error after Writes that returned nil,
\* every byte those Writes took is in the output file and the cursor is
\* closed.
C10_NothingLostOnAbort ==
    (BackupRan /\ Exited /\ exitStatus = 1 /\ accepted # <<>>) =>
      /\ \A p \in created : files[p] = AcceptedBytes(accepted, p)
      /\ ~cur.open

=============================================================================
